---- MODULE Spec2Model ----
(***************************************************************************)
(* Model of the one-to-many face verification server (backend/server.js):  *)
(* the in-memory session map, the socket.io handlers create-session,       *)
(* join-session, upload-reference-image, upload-participant-image and      *)
(* disconnect, the expiry sweep and euclideanDistance.                     *)
(*                                                                         *)
(* Conventions.                                                            *)
(*  - A JavaScript string payload (image, name) is a TLA+ string; the      *)
(*    string "null" stands for null/undefined.                             *)
(*  - A face descriptor is [defined, arr]: a JavaScript array arr, or      *)
(*    null/undefined when defined = FALSE.                                 *)
(*  - Coordinates are integers counting tenths, and a distance d is kept   *)
(*    as 100 * d^2 (the sum of the squared coordinate differences), so     *)
(*    that d < 0.6 is exactly "sum < 6 * 6".                               *)
(*  - Time is Date.now() in milliseconds.                                  *)
(*  - req is the request (or timer event) handled last, requests the      *)
(*    number of client requests handled so far.                            *)
(*  - timers is the set of pending setTimeout callbacks (two-party server  *)
(*    only).                                                               *)
(*  - out is what the last handler sent, in the order it sent it: the      *)
(*    acknowledgement callback and the emitted events, each with the set   *)
(*    of connections it is delivered to.                                   *)
(***************************************************************************)
EXTENDS Integers, Sequences, FiniteSets, TLC

VARIABLES sessions, sockets, now, sweepDue, running, req, out, requests, timers

vars == <<sessions, sockets, now, sweepDue, running, req, out, requests, timers>>

-----------------------------------------------------------------------------
(* Bounds of the model *)

MaxTicks == 2
MaxRequests == 5

(* Program constants *)

maxParticipants == 10
thresholdTenths == 6
defaultDurationMinutes == 30

SweepIntervalMs == 60 * 1000

\* the clock is observed once per sweep interval
TickMs == SweepIntervalMs

-----------------------------------------------------------------------------
(* Values *)

null == "null"

Conns == {"a", "b", "c"}
Creators == {"a", "b"}
SessionIds == {"S1"}
NoSession == "none"

ImageOf(c) == "img_" \o c
NameOf(c) == IF c = "a" THEN "Ann" ELSE null

Arr(s) == [defined |-> TRUE, arr |-> s]
nullDescriptor == [defined |-> FALSE, arr |-> <<>>]
\* the descriptor the face of connection c's user yields
DescriptorOf(c) ==
  IF c = "a" THEN Arr(<<0, 0>>) ELSE IF c = "b" THEN Arr(<<0, 5>>) ELSE Arr(<<6, 0>>)

Num(n) == [t |-> "number", v |-> n]
undefinedDuration == [t |-> "undefined", v |-> 0]
Durations == {Num(1)}

\* the payloads connection c may send with upload-reference-image
RefInputs(c) ==
  {[image |-> ImageOf(c), faceDescriptor |-> d] : d \in {DescriptorOf(c), Arr(<<6, 0>>)}}
  \cup {[image |-> ImageOf(c), faceDescriptor |-> nullDescriptor],
        [image |-> null, faceDescriptor |-> DescriptorOf(c)]}

\* the payloads connection c may send with upload-participant-image
PartInputs(c) ==
  {[image |-> ImageOf(c), faceDescriptor |-> DescriptorOf(c), name |-> NameOf(c)],
   [image |-> ImageOf(c), faceDescriptor |-> Arr(<<0>>), name |-> NameOf(c)]}

-----------------------------------------------------------------------------
(* euclideanDistance *)

\* a sum of the differences that forgets to square them
RECURSIVE SumUnsquared(_, _, _)
SumUnsquared(arr1, arr2, i) ==
  IF i > Len(arr1) THEN 0
  ELSE (arr1[i] - arr2[i]) + SumUnsquared(arr1, arr2, i + 1)

RECURSIVE SumSq(_, _, _)
SumSq(arr1, arr2, i) ==
  IF i > Len(arr1) THEN 0
  ELSE (arr1[i] - arr2[i]) * (arr1[i] - arr2[i]) + SumSq(arr1, arr2, i + 1)

\* euclideanDistance throws: a TypeError on reading .length of null/undefined,
\* or its own Error when the lengths differ.
euclideanDistanceThrows(d1, d2) ==
  \/ ~d1.defined
  \/ ~d2.defined
  \/ Len(d1.arr) # Len(d2.arr)

\* 100 * distance^2 of two arrays of equal length (coordinates in tenths)
euclideanDistance(d1, d2) == SumSq(d1.arr, d2.arr, 1)

\* a threshold test with the comparison inverted
isMatchInverted(distance) == distance > thresholdTenths * thresholdTenths

isMatch(distance) == distance < thresholdTenths * thresholdTenths

-----------------------------------------------------------------------------
(* Messages *)

\* the acknowledgement callback of a request: delivered to the caller
Reply(c, payload) == [name |-> "reply", to |-> {c}, payload |-> payload]

LiveSockets == {c \in Conns : sockets[c].status = "live"}

\* io.to(room).emit / socket.emit: delivered to the live sockets among `to`
Emit(name, to, payload) ==
  [name |-> name, to |-> to \cap LiveSockets, payload |-> payload]

\* a rejection that returns without calling the callback
FailSilently(c, error) == << >>

Fail(c, error) == <<Reply(c, [success |-> FALSE, error |-> error])>>

-----------------------------------------------------------------------------
(* Session store helpers *)

Has(sid) == sid \in DOMAIN sessions

Put(sid, s) ==
  [x \in DOMAIN sessions \cup {sid} |-> IF x = sid THEN s ELSE sessions[x]]

Delete(store, gone) == [x \in DOMAIN store \ gone |-> store[x]]

matchedOf(participants) == SelectSeq(participants, LAMBDA p : p.matched)

galleryEntry(p) ==
  [name |-> p.name, image |-> p.image, matchDistance |-> p.matchDistance,
   timestamp |-> p.timestamp]

\* a gallery of every participant, matched or not
galleryOfAll(participants) ==
  [i \in 1..Len(participants) |-> galleryEntry(participants[i])]

\* session.participants.filter(p => p.matched).map(...)
galleryOf(participants) ==
  [i \in 1..Len(matchedOf(participants)) |-> galleryEntry(matchedOf(participants)[i])]

-----------------------------------------------------------------------------
Init ==
  /\ sessions = << >>
  /\ sockets = [c \in Conns |->
                  [status |-> "new", sessionId |-> NoSession, isAdmin |-> FALSE,
                   rooms |-> {}]]
  /\ now = 0
  /\ sweepDue = FALSE
  /\ running = TRUE
  /\ req = [op |-> "start"]
  /\ out = << >>
  /\ requests = 0
  /\ timers = {}

\* io.on('connection'): a new socket with a fresh id
Connect(c) ==
  /\ running
  /\ sockets[c].status = "new"
  /\ sockets' = [sockets EXCEPT ![c].status = "live"]
  /\ req' = [op |-> "connect", c |-> c]
  /\ out' = << >>
  /\ UNCHANGED <<timers, sessions, now, sweepDue, running, requests>>

\* the destructuring default { durationMinutes = 30 } applies to undefined only
durationDefault(d) ==
  IF d.t = "undefined" THEN Num(defaultDurationMinutes) ELSE d

\* the session object create-session stores; referenceUploaded is history:
\* whether an upload-reference-image has succeeded on this session
newSession(c, sid, durationMinutes) ==
  [id |-> sid,
   adminId |-> c,
   adminName |-> "",
   referenceImage |-> null,
   referenceFaceDescriptor |-> nullDescriptor,
   participants |-> << >>,
   maxParticipants |-> maxParticipants,
   durationMinutes |-> durationDefault(durationMinutes),
   createdAt |-> now,
   referenceUploaded |-> FALSE]

\* socket.on('create-session'): sid is uuidv4().substring(0, 8).toUpperCase()
CreateSession(c, sid, durationMinutes) ==
  /\ running
  /\ sockets[c].status = "live"
  /\ req' = [op |-> "create-session", c |-> c, sid |-> sid]
  /\ sessions' = Put(sid, newSession(c, sid, durationMinutes))
  /\ sockets' = [sockets EXCEPT ![c].rooms = @ \cup {sid},
                                ![c].sessionId = sid,
                                ![c].isAdmin = TRUE]
  /\ out' = <<Reply(c, [success |-> TRUE, sessionId |-> sid, isAdmin |-> TRUE])>>
  /\ UNCHANGED <<timers, now, sweepDue, running>>

\* a capacity test that is off by one
joinFullOffByOne(session) == Len(session.participants) > session.maxParticipants

\* session.participants.length >= session.maxParticipants
joinFull(session) == Len(session.participants) >= session.maxParticipants

\* a join-session that enters the joining connection into session.participants
JoinSessionAddsRecord(c, sid) ==
  /\ running
  /\ sockets[c].status = "live"
  /\ req' = [op |-> "join-session", c |-> c, sid |-> sid]
  /\ IF ~Has(sid) THEN
       /\ out' = Fail(c, "Session not found")
       /\ UNCHANGED <<sockets, sessions>>
     ELSE IF joinFull(sessions[sid]) THEN
       /\ out' = Fail(c, "Session is full (max 10 participants)")
       /\ UNCHANGED <<sockets, sessions>>
     ELSE
       /\ sockets' = [sockets EXCEPT ![c].rooms = @ \cup {sid},
                                     ![c].sessionId = sid,
                                     ![c].isAdmin = FALSE]
       /\ sessions' = [sessions EXCEPT ![sid].participants =
            Append(@, [socketId |-> c, name |-> "Anonymous", image |-> null,
                       faceDescriptor |-> nullDescriptor, matched |-> FALSE,
                       matchDistance |-> 0, timestamp |-> now])]
       /\ out' = <<Reply(c, [success |-> TRUE, sessionId |-> sid, isAdmin |-> FALSE]),
                   Emit("participant-joined", {sessions[sid].adminId},
                        [participantCount |-> Len(sessions[sid].participants),
                         maxParticipants |-> sessions[sid].maxParticipants])>>
  /\ UNCHANGED <<timers, now, sweepDue, running>>

\* a join-session that opens a session under an id it does not find
JoinSessionCreatesMissing(c, sid) ==
  /\ running
  /\ sockets[c].status = "live"
  /\ req' = [op |-> "join-session", c |-> c, sid |-> sid]
  /\ IF Has(sid) /\ joinFull(sessions[sid]) THEN
       /\ out' = Fail(c, "Session is full (max 10 participants)")
       /\ UNCHANGED <<sockets, sessions>>
     ELSE
       /\ sessions' = IF Has(sid) THEN sessions
                      ELSE Put(sid, newSession(c, sid, undefinedDuration))
       /\ sockets' = [sockets EXCEPT ![c].rooms = @ \cup {sid},
                                     ![c].sessionId = sid,
                                     ![c].isAdmin = FALSE]
       /\ out' = <<Reply(c, [success |-> TRUE, sessionId |-> sid, isAdmin |-> FALSE]),
                   Emit("participant-joined", {sessions'[sid].adminId},
                        [participantCount |-> Len(sessions'[sid].participants),
                         maxParticipants |-> sessions'[sid].maxParticipants])>>
  /\ UNCHANGED <<timers, now, sweepDue, running>>

\* socket.on('join-session')
JoinSession(c, sid) ==
  /\ running
  /\ sockets[c].status = "live"
  /\ req' = [op |-> "join-session", c |-> c, sid |-> sid]
  /\ IF ~Has(sid) THEN
       /\ out' = Fail(c, "Session not found")
       /\ UNCHANGED sockets
     ELSE IF joinFull(sessions[sid]) THEN
       /\ out' = Fail(c, "Session is full (max 10 participants)")
       /\ UNCHANGED sockets
     ELSE
       /\ sockets' = [sockets EXCEPT ![c].rooms = @ \cup {sid},
                                     ![c].sessionId = sid,
                                     ![c].isAdmin = FALSE]
       /\ out' = <<Reply(c, [success |-> TRUE, sessionId |-> sid, isAdmin |-> FALSE]),
                   Emit("participant-joined", {sessions[sid].adminId},
                        [participantCount |-> Len(sessions[sid].participants),
                         maxParticipants |-> sessions[sid].maxParticipants])>>
  /\ UNCHANGED <<timers, sessions, now, sweepDue, running>>

\* no test of the caller
isOwnerAnyone(c, session) == TRUE

\* an owner test that lets anyone in once the owner's socket has gone
isOwnerOrOrphan(c, session) ==
  session.adminId = c \/ session.adminId \notin LiveSockets

\* session.adminId === socket.id
isOwner(c, session) == session.adminId = c

\* the participants re-evaluated against a new reference descriptor
reevaluated(participants, reference) ==
  [i \in 1..Len(participants) |->
     IF euclideanDistanceThrows(reference, participants[i].faceDescriptor)
     THEN participants[i]
     ELSE [participants[i] EXCEPT
             !.matchDistance = euclideanDistance(reference, participants[i].faceDescriptor),
             !.matched = isMatch(euclideanDistance(reference,
                                                   participants[i].faceDescriptor))]]

\* an upload-reference-image that re-evaluates the stored participants
UploadReferenceReevaluates(c, sid, in) ==
  /\ running
  /\ sockets[c].status = "live"
  /\ req' = [op |-> "upload-reference-image", c |-> c, sid |-> sid]
  /\ IF ~Has(sid) THEN
       /\ out' = Fail(c, "Session not found")
       /\ UNCHANGED sessions
     ELSE IF ~isOwner(c, sessions[sid]) THEN
       /\ out' = Fail(c, "Only session creator can upload reference image")
       /\ UNCHANGED sessions
     ELSE
       /\ sessions' = [sessions EXCEPT ![sid].referenceImage = in.image,
                                       ![sid].referenceFaceDescriptor = in.faceDescriptor,
                                       ![sid].referenceUploaded = TRUE,
                                       ![sid].participants =
                                          reevaluated(@, in.faceDescriptor)]
       /\ out' = <<Reply(c, [success |-> TRUE])>>
  /\ UNCHANGED <<timers, sockets, now, sweepDue, running>>

\* socket.on('upload-reference-image')
UploadReference(c, sid, in) ==
  /\ running
  /\ sockets[c].status = "live"
  /\ req' = [op |-> "upload-reference-image", c |-> c, sid |-> sid]
  /\ IF ~Has(sid) THEN
       /\ out' = Fail(c, "Session not found")
       /\ UNCHANGED sessions
     ELSE IF ~isOwner(c, sessions[sid]) THEN
       /\ out' = Fail(c, "Only session creator can upload reference image")
       /\ UNCHANGED sessions
     ELSE
       /\ sessions' = [sessions EXCEPT ![sid].referenceImage = in.image,
                                       ![sid].referenceFaceDescriptor = in.faceDescriptor,
                                       ![sid].referenceUploaded = TRUE]
       /\ out' = <<Reply(c, [success |-> TRUE])>>
  /\ UNCHANGED <<timers, sockets, now, sweepDue, running>>

\* the participant record upload-participant-image builds
newParticipant(c, session, in) ==
  [socketId |-> c,
   name |-> IF in.name = null THEN "Anonymous" ELSE in.name,
   image |-> in.image,
   faceDescriptor |-> in.faceDescriptor,
   matched |-> isMatch(euclideanDistance(session.referenceFaceDescriptor, in.faceDescriptor)),
   matchDistance |-> euclideanDistance(session.referenceFaceDescriptor, in.faceDescriptor),
   timestamp |-> now]

\* a verification-result that shows the reference whatever the outcome
verificationResultLeaky(c, session, p) ==
  Emit("verification-result", {c},
       [matched |-> p.matched,
        distance |-> p.matchDistance,
        referenceImage |-> session.referenceImage,
        participantImage |-> p.image])

\* a verification-result that never shows the reference
verificationResultWithheld(c, session, p) ==
  Emit("verification-result", {c},
       [matched |-> p.matched,
        distance |-> p.matchDistance,
        referenceImage |-> null,
        participantImage |-> p.image])

\* socket.emit('verification-result', ...)
verificationResult(c, session, p) ==
  Emit("verification-result", {c},
       [matched |-> p.matched,
        distance |-> p.matchDistance,
        referenceImage |-> IF p.matched THEN session.referenceImage ELSE null,
        participantImage |-> p.image])

\* a gallery-updated whose total counts the matched participants only
galleryUpdatedMatchedTotal(session) ==
  Emit("gallery-updated", {session.adminId},
       [participants |-> galleryOf(session.participants),
        totalParticipants |-> Len(matchedOf(session.participants)),
        matchedCount |-> Len(matchedOf(session.participants))])

\* a gallery-updated sent to the room of the session
galleryUpdatedToRoom(session) ==
  Emit("gallery-updated", {x \in Conns : session.id \in sockets[x].rooms},
       [participants |-> galleryOf(session.participants),
        totalParticipants |-> Len(session.participants),
        matchedCount |-> Len(matchedOf(session.participants))])

\* io.to(session.adminId).emit('gallery-updated', ...)
galleryUpdated(session) ==
  Emit("gallery-updated", {session.adminId},
       [participants |-> galleryOf(session.participants),
        totalParticipants |-> Len(session.participants),
        matchedCount |-> Len(matchedOf(session.participants))])

\* an upload-participant-image that notifies the owner before it answers
uploadOutputGalleryFirst(c, session, p) ==
  (IF p.matched THEN <<galleryUpdated(session)>> ELSE << >>)
  \o <<Reply(c, [success |-> TRUE]), verificationResult(c, session, p)>>

\* what upload-participant-image sends once it has stored the record p
uploadOutput(c, session, p) ==
  <<Reply(c, [success |-> TRUE]), verificationResult(c, session, p)>>
  \o (IF p.matched THEN <<galleryUpdated(session)>> ELSE << >>)

\* no test of the reference
referenceReadyAlways(session) == TRUE

\* !session.referenceImage is false
referenceReady(session) == session.referenceImage # null

\* a capacity test that is off by one
uploadFullOffByOne(c, session) == Len(session.participants) > session.maxParticipants

\* the capacity test of upload-participant-image
uploadFull(c, session) == Len(session.participants) >= session.maxParticipants

\* the participants after the upload of record p
storeParticipant(participants, p) == Append(participants, p)

\* socket.on('upload-participant-image')
UploadParticipant(c, sid, in) ==
  /\ running
  /\ sockets[c].status = "live"
  /\ req' = [op |-> "upload-participant-image", c |-> c, sid |-> sid, in |-> in]
  /\ IF ~Has(sid) THEN
       /\ out' = Fail(c, "Session not found")
       /\ UNCHANGED <<sessions, running>>
     ELSE IF ~referenceReady(sessions[sid]) THEN
       /\ out' = Fail(c, "Session host has not uploaded reference image yet")
       /\ UNCHANGED <<sessions, running>>
     ELSE IF uploadFull(c, sessions[sid]) THEN
       /\ out' = Fail(c, "Session is full")
       /\ UNCHANGED <<sessions, running>>
     ELSE IF euclideanDistanceThrows(sessions[sid].referenceFaceDescriptor,
                                     in.faceDescriptor) THEN
       \* nothing catches the exception: no reply is sent and the process exits
       /\ running' = FALSE
       /\ out' = << >>
       /\ UNCHANGED sessions
     ELSE
       /\ sessions' = [sessions EXCEPT ![sid].participants =
            storeParticipant(@, newParticipant(c, sessions[sid], in))]
       /\ out' = uploadOutput(c, sessions'[sid], newParticipant(c, sessions[sid], in))
       /\ UNCHANGED running
  /\ UNCHANGED <<timers, sockets, now, sweepDue>>

\* session.participants.filter(p => p.socketId !== socket.id)
withoutSocket(participants, c) == SelectSeq(participants, LAMBDA p : p.socketId # c)

\* a clean-up test that looks at the participants only
emptySessionWhateverOwner(session, c) == Len(session.participants) = 0

\* the clean-up test of disconnect, evaluated once socket c has gone:
\* no participants and !io.sockets.sockets.get(session.adminId)
emptySession(session, c) ==
  /\ Len(session.participants) = 0
  /\ session.adminId \notin LiveSockets \ {c}

\* socket.on('disconnect'): socket.io has already removed the socket from its
\* rooms and from io.sockets.sockets when the listener runs
Disconnect(c) ==
  /\ running
  /\ sockets[c].status = "live"
  /\ req' = [op |-> "disconnect", c |-> c, sid |-> sockets[c].sessionId]
  /\ sockets' = [sockets EXCEPT ![c].status = "gone", ![c].rooms = {}]
  /\ LET sid == sockets[c].sessionId
     IN IF sid = NoSession \/ ~Has(sid) THEN
          /\ out' = << >>
          /\ UNCHANGED sessions
        ELSE
          LET session ==
                IF isOwner(c, sessions[sid]) THEN sessions[sid]
                ELSE [sessions[sid] EXCEPT !.participants = withoutSocket(@, c)]
          IN /\ out' = IF isOwner(c, sessions[sid])
                       THEN <<Emit("admin-disconnected",
                                   {x \in Conns \ {c} : sid \in sockets[x].rooms},
                                   [none |-> TRUE])>>
                       ELSE <<Emit("participant-left", {session.adminId},
                                   [participantCount |-> Len(session.participants)])>>
             /\ sessions' = IF emptySession(session, c)
                            THEN Delete(sessions, {sid})
                            ELSE [sessions EXCEPT ![sid] = session]
  /\ UNCHANGED <<timers, now, sweepDue, running>>

\* the clock advances by one sweep interval and the setInterval timer becomes due
TickUpTo(max) ==
  /\ running
  /\ ~sweepDue
  /\ now < max * TickMs
  /\ now' = now + TickMs
  /\ sweepDue' = ((now + TickMs) \div SweepIntervalMs > now \div SweepIntervalMs)
  /\ req' = [op |-> "tick"]
  /\ out' = << >>
  /\ UNCHANGED <<timers, sessions, sockets, running, requests>>

Tick == TickUpTo(MaxTicks)

\* (session.durationMinutes || 30) * 60 * 1000
sessionDuration(session) ==
  IF session.durationMinutes.v = 0
  THEN defaultDurationMinutes * 60 * 1000
  ELSE session.durationMinutes.v * 60 * 1000

\* an expiry test that already fires at the duration
expiredAtDuration(session) ==
  /\ session.durationMinutes.t # "string"
  /\ now - session.createdAt >= sessionDuration(session)

\* an expiry test that lets a session live one sweep interval longer
expiredLate(session) ==
  /\ session.durationMinutes.t # "string"
  /\ now - session.createdAt > sessionDuration(session) + SweepIntervalMs

\* now - session.createdAt > sessionDuration (never true of NaN)
expired(session) ==
  /\ session.durationMinutes.t # "string"
  /\ now - session.createdAt > sessionDuration(session)

\* the setInterval callback
Sweep ==
  /\ running
  /\ sweepDue
  /\ sweepDue' = FALSE
  /\ sessions' = Delete(sessions, {sid \in DOMAIN sessions : expired(sessions[sid])})
  /\ req' = [op |-> "sweep"]
  /\ out' = << >>
  /\ UNCHANGED <<timers, sockets, now, running, requests>>

\* one more client request is handled, of at most max
Request(max) ==
  /\ requests < max
  /\ requests' = requests + 1

Next ==
  \/ \E c \in Conns : Connect(c)
  \/ \E c \in Creators, sid \in SessionIds, d \in Durations :
        Request(MaxRequests) /\ CreateSession(c, sid, d)
  \/ \E c \in Conns, sid \in SessionIds : Request(MaxRequests) /\ JoinSession(c, sid)
  \/ \E c \in Conns, sid \in SessionIds : \E in \in RefInputs(c) :
        Request(MaxRequests) /\ UploadReference(c, sid, in)
  \/ \E c \in Conns, sid \in SessionIds : \E in \in PartInputs(c) :
        Request(MaxRequests) /\ UploadParticipant(c, sid, in)
  \/ \E c \in Conns : Request(MaxRequests) /\ Disconnect(c)
  \/ Tick
  \/ Sweep

Spec == Init /\ [][Next]_vars

-----------------------------------------------------------------------------
(* The same handlers with two connections, well-formed payloads, a stopped   *)
(* clock and no limit on the number of requests: sessions fill up.           *)

FullConns == {"a", "b"}
FullCreators == {"a"}

FullInput(c) ==
  [image |-> ImageOf(c), faceDescriptor |-> DescriptorOf(c), name |-> NameOf(c)]

NextFull ==
  \/ \E c \in FullConns : Connect(c)
  \/ \E c \in FullCreators, sid \in SessionIds, d \in Durations :
        CreateSession(c, sid, d) /\ UNCHANGED requests
  \/ \E c \in FullConns, sid \in SessionIds :
        JoinSession(c, sid) /\ UNCHANGED requests
  \/ \E c \in FullConns, sid \in SessionIds :
        UploadReference(c, sid, FullInput(c)) /\ UNCHANGED requests
  \/ \E c \in FullConns, sid \in SessionIds :
        UploadParticipant(c, sid, FullInput(c)) /\ UNCHANGED requests
  \/ \E c \in FullConns : Disconnect(c) /\ UNCHANGED requests

SpecFull == Init /\ [][NextFull]_vars

-----------------------------------------------------------------------------
(* The same handlers with two connections, well-formed payloads, sessions of *)
(* several durations (the default of 30 minutes among them) and a clock that *)
(* runs past the longest of them: sessions expire.                           *)

ExpiryMaxTicks == 32
ExpiryMaxRequests == 3

ExpiryConns == {"a", "b"}
ExpiryCreators == {"a"}
ExpiryDurations == {Num(1), Num(2), undefinedDuration}

NextExpiry ==
  \/ \E c \in ExpiryConns : Connect(c)
  \/ \E c \in ExpiryCreators, sid \in SessionIds, d \in ExpiryDurations :
        Request(ExpiryMaxRequests) /\ CreateSession(c, sid, d)
  \/ \E c \in ExpiryConns, sid \in SessionIds :
        Request(ExpiryMaxRequests) /\ JoinSession(c, sid)
  \/ \E c \in ExpiryConns, sid \in SessionIds :
        Request(ExpiryMaxRequests) /\ UploadReference(c, sid, FullInput(c))
  \/ \E c \in ExpiryConns, sid \in SessionIds :
        Request(ExpiryMaxRequests) /\ UploadParticipant(c, sid, FullInput(c))
  \/ \E c \in ExpiryConns : Request(ExpiryMaxRequests) /\ Disconnect(c)
  \/ TickUpTo(ExpiryMaxTicks)
  \/ Sweep

SpecExpiry == Init /\ [][NextExpiry]_vars

-----------------------------------------------------------------------------
(* The handlers of the expiry model with the durations a client can send     *)
(* that are no duration: 0, a negative number, null and text that is not a   *)
(* number.                                                                   *)

nullDuration == [t |-> "null", v |-> 0]
nonNumericDuration == [t |-> "string", v |-> 0]
MalformedDurations == {Num(0), Num(0 - 1), nullDuration, nonNumericDuration}

NextMalformed ==
  \/ \E c \in ExpiryConns : Connect(c)
  \/ \E c \in ExpiryCreators, sid \in SessionIds, d \in MalformedDurations :
        Request(ExpiryMaxRequests) /\ CreateSession(c, sid, d)
  \/ \E c \in ExpiryConns, sid \in SessionIds :
        Request(ExpiryMaxRequests) /\ JoinSession(c, sid)
  \/ \E c \in ExpiryConns, sid \in SessionIds :
        Request(ExpiryMaxRequests) /\ UploadReference(c, sid, FullInput(c))
  \/ \E c \in ExpiryConns, sid \in SessionIds :
        Request(ExpiryMaxRequests) /\ UploadParticipant(c, sid, FullInput(c))
  \/ \E c \in ExpiryConns : Request(ExpiryMaxRequests) /\ Disconnect(c)
  \/ TickUpTo(ExpiryMaxTicks)
  \/ Sweep

SpecMalformed == Init /\ [][NextMalformed]_vars

-----------------------------------------------------------------------------
(* euclideanDistance and the threshold test on their own: the function is    *)
(* called once on a pair of descriptors drawn from all the integer vectors   *)
(* of up to MaxLen coordinates in 0..MaxCoord (tenths).                      *)

MaxLen == 2
MaxCoord == 6

Vectors == UNION {[1..n -> 0..MaxCoord] : n \in 0..MaxLen}

InitDistance ==
  /\ sessions = << >>
  /\ sockets = [c \in Conns |->
                  [status |-> "new", sessionId |-> NoSession, isAdmin |-> FALSE,
                   rooms |-> {}]]
  /\ now = 0
  /\ sweepDue = FALSE
  /\ running = TRUE
  /\ \E a \in Vectors, b \in Vectors :
        req = [op |-> "euclideanDistance", desc1 |-> Arr(a), desc2 |-> Arr(b)]
  /\ out = << >>
  /\ requests = 0
  /\ timers = {}

\* const distance = euclideanDistance(desc1, desc2); const isMatch = distance < threshold
EuclideanDistanceCall ==
  /\ req.op = "euclideanDistance"
  /\ out = << >>
  /\ out' = IF euclideanDistanceThrows(req.desc1, req.desc2)
            THEN <<[name |-> "throw", distance |-> 0, isMatch |-> FALSE]>>
            ELSE <<[name |-> "return",
                    distance |-> euclideanDistance(req.desc1, req.desc2),
                    isMatch |-> isMatch(euclideanDistance(req.desc1, req.desc2))]>>
  /\ UNCHANGED <<timers, sessions, sockets, now, sweepDue, running, req, requests>>

NextDistance == EuclideanDistanceCall

SpecDistance == InitDistance /\ [][NextDistance]_vars

-----------------------------------------------------------------------------
(* The two-party server (unnamed/part_002): a session holds up to two users, *)
(* the faces are compared once both have uploaded, and a timer deletes the   *)
(* session 30 seconds after a comparison.  A session is                      *)
(* [id, users, matched, createdAt]; matched is "null" until compareFaces     *)
(* sets it to "true" or "false".                                             *)

PairMaxTicks == 3
PairMaxRequests == 5

maxUsers == 2
cleanupDelayMs == 30000
pairExpiryMs == 10 * 60 * 1000

\* the clock of the two-party server is observed every 30 seconds
PairTickMs == cleanupDelayMs

PairConns == {"a", "b", "c"}
PairCreators == {"a"}

\* the payloads connection c may send with upload-image
PairInputs(c) ==
  {[image |-> ImageOf(c), faceDescriptor |-> DescriptorOf(c)]}
  \cup (IF c = "c" THEN {[image |-> ImageOf(c), faceDescriptor |-> Arr(<<0>>)]}
        ELSE {})

\* the sockets in the socket.io room of session sid
room(sid) == {x \in Conns : sid \in sockets[x].rooms}

newPairSession(sid) ==
  [id |-> sid, users |-> << >>, matched |-> "null", createdAt |-> now]

\* socket.on('create-session')
PairCreateSession(c, sid) ==
  /\ running
  /\ sockets[c].status = "live"
  /\ req' = [op |-> "create-session", c |-> c, sid |-> sid]
  /\ sessions' = Put(sid, newPairSession(sid))
  /\ sockets' = [sockets EXCEPT ![c].rooms = @ \cup {sid}, ![c].sessionId = sid]
  /\ out' = <<Reply(c, [success |-> TRUE, sessionId |-> sid])>>
  /\ UNCHANGED <<now, sweepDue, running, timers>>

\* socket.on('join-session')
PairJoinSession(c, sid) ==
  /\ running
  /\ sockets[c].status = "live"
  /\ req' = [op |-> "join-session", c |-> c, sid |-> sid]
  /\ IF ~Has(sid) THEN
       /\ out' = Fail(c, "Session not found")
       /\ UNCHANGED sockets
     ELSE IF Len(sessions[sid].users) >= maxUsers THEN
       /\ out' = Fail(c, "Session is full")
       /\ UNCHANGED sockets
     ELSE
       /\ sockets' = [sockets EXCEPT ![c].rooms = @ \cup {sid}, ![c].sessionId = sid]
       /\ out' = <<Reply(c, [success |-> TRUE, sessionId |-> sid]),
                   Emit("user-joined", room(sid) \ {c},
                        [userCount |-> Len(sessions[sid].users) + 1])>>
  /\ UNCHANGED <<sessions, now, sweepDue, running, timers>>

\* a look-up that never finds the caller
existingUserIndexNone(users, c) == 0

\* session.users.findIndex(u => u.socketId === socket.id), counted from 1;
\* 0 when there is none
existingUserIndex(users, c) ==
  IF \E i \in 1..Len(users) : users[i].socketId = c
  THEN CHOOSE i \in 1..Len(users) :
         /\ users[i].socketId = c
         /\ \A j \in 1..(i - 1) : users[j].socketId # c
  ELSE 0

newUser(c, in) ==
  [socketId |-> c, image |-> in.image, faceDescriptor |-> in.faceDescriptor,
   ready |-> TRUE]

readyCount(users) == Len(SelectSeq(users, LAMBDA u : u.ready))

\* io.to(sessionId).emit('user-ready', ...)
userReady(sid, users) ==
  Emit("user-ready", room(sid),
       [readyCount |-> readyCount(users), totalUsers |-> Len(users)])

\* io.to(sessionId).emit('comparison-result', ...): both images if matched
comparisonResult(sid, users) ==
  IF isMatch(euclideanDistance(users[1].faceDescriptor, users[2].faceDescriptor))
  THEN Emit("comparison-result", room(sid),
            [matched |-> TRUE,
             distance |-> euclideanDistance(users[1].faceDescriptor,
                                            users[2].faceDescriptor),
             user1 |-> users[1].image,
             user2 |-> users[2].image])
  ELSE Emit("comparison-result", room(sid),
            [matched |-> FALSE,
             distance |-> euclideanDistance(users[1].faceDescriptor,
                                            users[2].faceDescriptor)])

\* session.users.length === 2 && session.users.every(u => u.ready)
bothReady(users) == Len(users) = 2 /\ readyCount(users) = 2

\* socket.on('upload-image'), compareFaces included
UploadImage(c, sid, in) ==
  /\ running
  /\ sockets[c].status = "live"
  /\ req' = [op |-> "upload-image", c |-> c, sid |-> sid, in |-> in]
  /\ IF ~Has(sid) THEN
       /\ out' = Fail(c, "Session not found")
       /\ UNCHANGED <<sessions, running, timers>>
     ELSE IF /\ existingUserIndex(sessions[sid].users, c) = 0
             /\ Len(sessions[sid].users) >= maxUsers THEN
       /\ out' = Fail(c, "Session is full")
       /\ UNCHANGED <<sessions, running, timers>>
     ELSE
       LET i == existingUserIndex(sessions[sid].users, c)
           users == IF i > 0
                    THEN [sessions[sid].users EXCEPT ![i] = newUser(c, in)]
                    ELSE Append(sessions[sid].users, newUser(c, in))
           sent == <<Reply(c, [success |-> TRUE]), userReady(sid, users)>>
       IN IF ~bothReady(users) THEN
            /\ sessions' = [sessions EXCEPT ![sid].users = users]
            /\ out' = sent
            /\ UNCHANGED <<running, timers>>
          ELSE IF euclideanDistanceThrows(users[1].faceDescriptor,
                                          users[2].faceDescriptor) THEN
            \* compareFaces throws, nothing catches it: the process exits
            /\ sessions' = [sessions EXCEPT ![sid].users = users]
            /\ out' = sent
            /\ running' = FALSE
            /\ UNCHANGED timers
          ELSE
            /\ sessions' =
                 [sessions EXCEPT
                    ![sid].users = users,
                    ![sid].matched =
                       IF isMatch(euclideanDistance(users[1].faceDescriptor,
                                                    users[2].faceDescriptor))
                       THEN "true" ELSE "false"]
            /\ out' = Append(sent, comparisonResult(sid, users))
            /\ timers' = timers \cup {[sid |-> sid, due |-> now + cleanupDelayMs]}
            /\ UNCHANGED running
  /\ UNCHANGED <<sockets, now, sweepDue>>

\* socket.on('disconnect'): socket.io has already removed the socket from its
\* rooms when the listener runs
PairDisconnect(c) ==
  /\ running
  /\ sockets[c].status = "live"
  /\ req' = [op |-> "disconnect", c |-> c, sid |-> sockets[c].sessionId]
  /\ sockets' = [sockets EXCEPT ![c].status = "gone", ![c].rooms = {}]
  /\ LET sid == sockets[c].sessionId
     IN IF sid = NoSession \/ ~Has(sid) THEN
          /\ out' = << >>
          /\ UNCHANGED sessions
        ELSE
          LET users == SelectSeq(sessions[sid].users, LAMBDA u : u.socketId # c)
          IN /\ out' = <<Emit("user-left", room(sid) \ {c},
                              [userCount |-> Len(users)])>>
             /\ sessions' = IF Len(users) = 0
                            THEN Delete(sessions, {sid})
                            ELSE [sessions EXCEPT ![sid].users = users]
  /\ UNCHANGED <<now, sweepDue, running, timers>>

\* the callback of the setTimeout of compareFaces: sessions.delete(sessionId)
CleanupTimer(t) ==
  /\ running
  /\ t \in timers
  /\ t.due <= now
  /\ timers' = timers \ {t}
  /\ sessions' = Delete(sessions, {t.sid})
  /\ req' = [op |-> "cleanup", sid |-> t.sid]
  /\ out' = << >>
  /\ UNCHANGED <<sockets, now, sweepDue, running, requests>>

\* the clock advances by 30 seconds, unless a timer that is due has not run
PairTick ==
  /\ running
  /\ ~sweepDue
  /\ \A t \in timers : t.due > now
  /\ now < PairMaxTicks * PairTickMs
  /\ now' = now + PairTickMs
  /\ sweepDue' = ((now + PairTickMs) \div SweepIntervalMs > now \div SweepIntervalMs)
  /\ req' = [op |-> "tick"]
  /\ out' = << >>
  /\ UNCHANGED <<sessions, sockets, running, requests, timers>>

\* the setInterval callback: sessions older than 10 minutes
PairSweep ==
  /\ running
  /\ sweepDue
  /\ sweepDue' = FALSE
  /\ sessions' = Delete(sessions, {sid \in DOMAIN sessions :
                                     now - sessions[sid].createdAt > pairExpiryMs})
  /\ req' = [op |-> "sweep"]
  /\ out' = << >>
  /\ UNCHANGED <<sockets, now, running, requests, timers>>

NextPair ==
  \/ \E c \in PairConns : Connect(c)
  \/ \E c \in PairCreators, sid \in SessionIds :
        Request(PairMaxRequests) /\ PairCreateSession(c, sid)
  \/ \E c \in PairConns, sid \in SessionIds :
        Request(PairMaxRequests) /\ PairJoinSession(c, sid)
  \/ \E c \in PairConns, sid \in SessionIds : \E in \in PairInputs(c) :
        Request(PairMaxRequests) /\ UploadImage(c, sid, in)
  \/ \E c \in PairConns : Request(PairMaxRequests) /\ PairDisconnect(c)
  \/ \E t \in timers : CleanupTimer(t)
  \/ PairTick
  \/ PairSweep

SpecPair == Init /\ [][NextPair]_vars

-----------------------------------------------------------------------------
(* Properties *)

thresholdSq == thresholdTenths * thresholdTenths

ImageFields == {"referenceImage", "participantImage", "image"}

\* every image a message carries
carried(m) ==
  {m.payload[f] : f \in DOMAIN m.payload \cap ImageFields}
  \cup (IF m.name = "gallery-updated"
        THEN {m.payload.participants[i].image : i \in 1..Len(m.payload.participants)}
        ELSE {})

IsUpload == req.op = "upload-participant-image"

Succeeded == Len(out) > 0 /\ out[1].name = "reply" /\ out[1].payload.success

\* C1: the reference image of a session reaches a connection other than the
\* session's owner only in the verification-result of that connection's own
\* upload-participant-image, and only when the distance of the uploaded
\* descriptor to the reference is below 0.6; a verification-result with a
\* distance of 0.6 or more has referenceImage = null, and no other event
\* carries the reference image.
C1_ReferenceOnlyOnMatch ==
  /\ \A i \in 1..Len(out) : \A r \in out[i].to : \A sid \in DOMAIN sessions :
       ( /\ r # sessions[sid].adminId
         /\ sessions[sid].referenceImage # null
         /\ sessions[sid].referenceImage \in carried(out[i]) )
       => /\ IsUpload /\ req.c = r /\ req.sid = sid
          /\ out[i].name = "verification-result"
          /\ out[i].payload.referenceImage = sessions[sid].referenceImage
          /\ out[i].payload.matched
          /\ out[i].payload.distance < thresholdSq
          /\ out[i].payload.distance =
               euclideanDistance(sessions[sid].referenceFaceDescriptor,
                                 req.in.faceDescriptor)
  /\ \A i \in 1..Len(out) :
       (out[i].name = "verification-result" /\ out[i].payload.distance >= thresholdSq)
       => out[i].payload.referenceImage = null
  /\ \A i \in 1..Len(out) :
       out[i].name # "verification-result" => "referenceImage" \notin DOMAIN out[i].payload

\* a participant other than the owner has matched and has been shown the reference
C1_Witness ==
  /\ IsUpload /\ Succeeded
  /\ req.c # sessions[req.sid].adminId
  /\ out[2].payload.referenceImage = sessions[req.sid].referenceImage
  /\ out[2].payload.referenceImage # null
  /\ out[2].to = {req.c}

\* C2: a successful upload-participant-image whose distance to the current
\* reference descriptor is below 0.6 sends its caller a verification-result
\* with matched = true, that distance, and the reference image the session
\* held when the upload was made.
C2_MatchedResult ==
  [][ ( /\ req'.op = "upload-participant-image"
        /\ Len(out') > 0 /\ out'[1].payload.success
        /\ euclideanDistance(sessions[req'.sid].referenceFaceDescriptor,
                             req'.in.faceDescriptor) < thresholdSq )
      => /\ Len(out') >= 2
         /\ out'[1] = Reply(req'.c, [success |-> TRUE])
         /\ out'[2].name = "verification-result"
         /\ out'[2].to = {req'.c}
         /\ out'[2].payload.matched = TRUE
         /\ out'[2].payload.distance =
              euclideanDistance(sessions[req'.sid].referenceFaceDescriptor,
                                req'.in.faceDescriptor)
         /\ out'[2].payload.referenceImage = sessions[req'.sid].referenceImage
         /\ out'[2].payload.referenceImage # null ]_vars

\* a matched upload at a distance above 0 has been answered
C2_Witness ==
  /\ IsUpload /\ Succeeded
  /\ out[2].payload.matched
  /\ out[2].payload.distance > 0
  /\ out[2].payload.distance < thresholdSq

\* C3: every participant a gallery-updated event lists is a stored record with
\* matched = true (distance below 0.6), and an event delivered to the owner
\* that is not the answer to the owner's own upload carries only images of
\* such records: no record of an unmatched upload reaches the owner.
C3_GalleryOnlyMatched ==
  \A i \in 1..Len(out) :
    /\ out[i].name = "gallery-updated" =>
         /\ IsUpload
         /\ out[i].to \subseteq {sessions[req.sid].adminId}
         /\ \A k \in 1..Len(out[i].payload.participants) :
              /\ out[i].payload.participants[k].matchDistance < thresholdSq
              /\ \E j \in 1..Len(sessions[req.sid].participants) :
                   /\ sessions[req.sid].participants[j].matched
                   /\ out[i].payload.participants[k] =
                        galleryEntry(sessions[req.sid].participants[j])
    /\ \A sid \in DOMAIN sessions :
         ( /\ sessions[sid].adminId \in out[i].to
           /\ out[i].name \notin {"verification-result", "reply"} )
         => \A img \in carried(out[i]) :
              \E j \in 1..Len(sessions[sid].participants) :
                /\ sessions[sid].participants[j].matched
                /\ sessions[sid].participants[j].image = img

\* the owner receives a gallery while the session holds an unmatched record
\* of another connection
C3_Witness ==
  /\ IsUpload /\ Len(out) = 3
  /\ out[3].name = "gallery-updated"
  /\ out[3].to = {sessions[req.sid].adminId}
  /\ \E j \in 1..Len(sessions[req.sid].participants) :
       /\ ~sessions[req.sid].participants[j].matched
       /\ sessions[req.sid].participants[j].socketId # sessions[req.sid].adminId

RECURSIVE MatchedInOrder(_)
MatchedInOrder(ps) ==
  IF ps = << >> THEN << >>
  ELSE (IF Head(ps).matched
        THEN <<[name |-> Head(ps).name, image |-> Head(ps).image,
                matchDistance |-> Head(ps).matchDistance,
                timestamp |-> Head(ps).timestamp]>>
        ELSE << >>) \o MatchedInOrder(Tail(ps))

\* C4: a gallery-updated event lists the matched records of the session in
\* submission order; matchedCount is the number of listed participants and of
\* stored records with matched = true, and totalParticipants the number of
\* stored records, matched or not.
C4_GalleryContent ==
  \A i \in 1..Len(out) :
    out[i].name = "gallery-updated" =>
      LET ps == sessions[req.sid].participants
      IN /\ out[i].payload.participants = MatchedInOrder(ps)
         /\ out[i].payload.matchedCount = Len(out[i].payload.participants)
         /\ out[i].payload.matchedCount =
              Cardinality({j \in 1..Len(ps) : ps[j].matched})
         /\ out[i].payload.totalParticipants = Len(ps)

\* a gallery of two matched participants among three records, the unmatched
\* one stored between them
C4_Witness ==
  /\ IsUpload /\ Len(out) = 3
  /\ out[3].payload.matchedCount = 2
  /\ out[3].payload.totalParticipants = 3
  /\ ~sessions[req.sid].participants[2].matched

\* C5: no participants collection holds two records with the same connection id.
C5_UniqueConnectionIds ==
  \A sid \in DOMAIN sessions :
    \A i, j \in 1..Len(sessions[sid].participants) :
      i # j => sessions[sid].participants[i].socketId
               # sessions[sid].participants[j].socketId

\* C6: while no upload-reference-image has succeeded on an existing session,
\* an upload-participant-image by a connection other than its owner fails with
\* the reference-not-ready error, stores nothing and emits no event.
C6_ReferenceNotReady ==
  [][ ( /\ req'.op = "upload-participant-image"
        /\ req'.sid \in DOMAIN sessions
        /\ ~sessions[req'.sid].referenceUploaded
        /\ req'.c # sessions[req'.sid].adminId )
      => /\ out' = <<[name |-> "reply", to |-> {req'.c},
                      payload |-> [success |-> FALSE,
                                   error |-> "Session host has not uploaded reference image yet"]]>>
         /\ sessions' = sessions
         /\ running' ]_vars

\* such an upload has been refused
C6_Witness ==
  /\ IsUpload
  /\ req.sid \in DOMAIN sessions
  /\ ~sessions[req.sid].referenceUploaded
  /\ req.c # sessions[req.sid].adminId
  /\ ~Succeeded
  /\ Len(out) = 1

\* C7: upload-reference-image on an existing session by a connection other
\* than its owner fails with the not-authorized error and leaves the session's
\* referenceImage and referenceFaceDescriptor as they were.
C7_NotAuthorized ==
  [][ ( /\ req'.op = "upload-reference-image"
        /\ req'.sid \in DOMAIN sessions
        /\ req'.c # sessions[req'.sid].adminId )
      => /\ out' = <<[name |-> "reply", to |-> {req'.c},
                      payload |-> [success |-> FALSE,
                                   error |-> "Only session creator can upload reference image"]]>>
         /\ req'.sid \in DOMAIN sessions'
         /\ sessions'[req'.sid].referenceImage = sessions[req'.sid].referenceImage
         /\ sessions'[req'.sid].referenceFaceDescriptor
              = sessions[req'.sid].referenceFaceDescriptor ]_vars

\* a connection other than the owner has been refused on a session that
\* holds a reference
C7_Witness ==
  /\ req.op = "upload-reference-image"
  /\ req.sid \in DOMAIN sessions
  /\ req.c # sessions[req.sid].adminId
  /\ sessions[req.sid].referenceImage # null
  /\ ~Succeeded

\* C8: join-session on an existing session succeeds exactly when the session
\* holds fewer than maxParticipants (10) records: with 10 it fails with the
\* session-full error, with 9 it succeeds.
C8_JoinCapacity ==
  [][ (req'.op = "join-session" /\ req'.sid \in DOMAIN sessions)
      => IF Len(sessions[req'.sid].participants) < maxParticipants
         THEN /\ out'[1] = [name |-> "reply", to |-> {req'.c},
                            payload |-> [success |-> TRUE, sessionId |-> req'.sid,
                                         isAdmin |-> FALSE]]
              /\ sockets'[req'.c].sessionId = req'.sid
         ELSE /\ out' = <<[name |-> "reply", to |-> {req'.c},
                           payload |-> [success |-> FALSE,
                                        error |-> "Session is full (max 10 participants)"]]>>
              /\ sockets' = sockets ]_vars

\* a join has been refused by a session of 10 records
C8_Witness ==
  /\ req.op = "join-session"
  /\ req.sid \in DOMAIN sessions
  /\ Len(sessions[req.sid].participants) = maxParticipants
  /\ ~Succeeded

\* a join has succeeded on a session of 9 records
C8_WitnessBelow ==
  /\ req.op = "join-session"
  /\ req.sid \in DOMAIN sessions
  /\ Len(sessions[req.sid].participants) = maxParticipants - 1
  /\ Succeeded

\* C9: whatever the interleaving of the handlers, no session ever holds more
\* than maxParticipants (10) records, and a successful upload-participant-image
\* appends exactly one record, of its caller, to the records the session held
\* and changes no other session.
C9_CapacityAndOneRecord ==
  [][ /\ \A sid \in DOMAIN sessions' :
           Len(sessions'[sid].participants) <= maxParticipants
      /\ ( /\ req'.op = "upload-participant-image"
           /\ Len(out') > 0 /\ out'[1].payload.success )
         => /\ DOMAIN sessions' = DOMAIN sessions
            /\ \A sid \in DOMAIN sessions \ {req'.sid} : sessions'[sid] = sessions[sid]
            /\ Len(sessions'[req'.sid].participants)
                 = Len(sessions[req'.sid].participants) + 1
            /\ SubSeq(sessions'[req'.sid].participants, 1,
                      Len(sessions[req'.sid].participants))
                 = sessions[req'.sid].participants
            /\ sessions'[req'.sid].participants[Len(sessions'[req'.sid].participants)].socketId
                 = req'.c
            /\ sessions'[req'.sid].participants[Len(sessions'[req'.sid].participants)].image
                 = req'.in.image ]_vars

\* an upload has stored the tenth record of a session
C9_Witness ==
  /\ IsUpload /\ Succeeded
  /\ Len(sessions[req.sid].participants) = maxParticipants

\* C10: an upload-participant-image is refused as session-full only if its
\* caller has no record in the session.
C10_FullOnlyForNewCallers ==
  ( /\ IsUpload
    /\ out = <<[name |-> "reply", to |-> {req.c},
                payload |-> [success |-> FALSE, error |-> "Session is full"]]>> )
  => \A j \in 1..Len(sessions[req.sid].participants) :
       sessions[req.sid].participants[j].socketId # req.c

\* C11: in every state, in every stored session, referenceImage is non-null
\* exactly when referenceFaceDescriptor is non-null, whatever payload the owner
\* sent with upload-reference-image (an image without a descriptor or a
\* descriptor without an image included).
C11_ReferencePaired ==
  \A sid \in DOMAIN sessions :
    (sessions[sid].referenceImage # null)
      <=> sessions[sid].referenceFaceDescriptor.defined

\* the age of a stored session and the duration it was created with, in ms
ageOf(sid) == now - sessions[sid].createdAt
configuredMs(sid) == sessions[sid].durationMinutes.v * 60 * 1000

\* C12: a session created with duration D is absent from the store no later
\* than the first sweep that runs after its age exceeds D: right after a sweep
\* the store holds no session whose age exceeds the duration it was created
\* with (the 30 minutes of the default when none was given).
C12_AbsentAfterSweep ==
  req.op = "sweep" =>
    \A sid \in DOMAIN sessions :
      sessions[sid].durationMinutes.t = "number" => ageOf(sid) <= configuredMs(sid)

\* a sweep has removed the session of an owner who is still connected (the
\* disconnect clean-up never removes the session of a live owner)
C12_Witness ==
  /\ req.op = "sweep"
  /\ \E c \in Conns :
       /\ sockets[c].status = "live"
       /\ sockets[c].isAdmin
       /\ sockets[c].sessionId \notin DOMAIN sessions

\* a stored session that is not older than the duration it was created with
young(sid) ==
  /\ sessions[sid].durationMinutes.t = "number"
  /\ ageOf(sid) <= configuredMs(sid)

C13_WitnessHalf ==
  /\ req.op = "sweep"
  /\ \E sid \in DOMAIN sessions : 2 * ageOf(sid) = configuredMs(sid)

\* C14: create-session validates the requested duration: no stored session has
\* a duration outside 5..120 minutes.
C14_DurationInRange ==
  \A sid \in DOMAIN sessions :
    /\ sessions[sid].durationMinutes.t = "number"
    /\ 5 <= sessions[sid].durationMinutes.v
    /\ sessions[sid].durationMinutes.v <= 120

\* C15: create-session never returns the id of a session that is in the store:
\* a create-session step leaves every session that was stored before it as it
\* was (owner, reference and participants preserved).
C15_CreateKeepsSessions ==
  [][ req'.op = "create-session"
        => /\ req'.sid \notin DOMAIN sessions
           /\ \A sid \in DOMAIN sessions :
                sid \in DOMAIN sessions' /\ sessions'[sid] = sessions[sid] ]_vars

\* C16: the disconnect of the owner never deletes or invalidates its session:
\* when the owner of a session with an uploaded reference disconnects,
\* whatever the number of participant records (zero included), the session
\* stays in the store with its reference and its participants, so that a
\* later upload-participant-image is still verified against it.
C16_OwnerDisconnectKeepsSession ==
  [][ ( /\ req'.op = "disconnect"
        /\ req'.sid \in DOMAIN sessions
        /\ sessions[req'.sid].adminId = req'.c
        /\ sessions[req'.sid].referenceImage # null
        /\ sessions[req'.sid].referenceFaceDescriptor.defined )
      => /\ req'.sid \in DOMAIN sessions'
         /\ sessions'[req'.sid] = sessions[req'.sid] ]_vars

\* C17: after a connection that owns no session has disconnected, no stored
\* session holds a participant record with its connection id, whichever
\* session it uploaded to and whether or not it had joined.
C17_NoRecordOfGoneConnection ==
  \A sid \in DOMAIN sessions :
    \A i \in 1..Len(sessions[sid].participants) :
      LET c == sessions[sid].participants[i].socketId
      IN (sockets[c].status = "gone") => sockets[c].isAdmin

\* the participant records of session sid that do not belong to connection c
recordsOfOthers(sid, c) ==
  {i \in 1..Len(sessions[sid].participants) :
     sessions[sid].participants[i].socketId # c}

\* C18: the disconnect of a participant (a connection tracking a session it
\* does not own) deletes that session in the same step exactly when no
\* participant record is left and the owner's connection is not live; when
\* the owner is live or a record remains the session stays in the store.
C18_ParticipantDisconnectCleanUp ==
  [][ ( /\ req'.op = "disconnect"
        /\ req'.sid \in DOMAIN sessions
        /\ sessions[req'.sid].adminId # req'.c )
      => ( req'.sid \notin DOMAIN sessions'
             <=> /\ recordsOfOthers(req'.sid, req'.c) = {}
                 /\ sockets'[sessions[req'.sid].adminId].status # "live" ) ]_vars

\* a participant's disconnect has deleted its session
C18_Witness ==
  /\ req.op = "disconnect"
  /\ Len(out) = 1
  /\ out[1].name = "participant-left"
  /\ req.sid \notin DOMAIN sessions

\* a participant's disconnect has left no record in a session whose owner is
\* connected, and the session is still stored
C18_WitnessKept ==
  /\ req.op = "disconnect"
  /\ Len(out) = 1
  /\ out[1].name = "participant-left"
  /\ req.sid \in DOMAIN sessions
  /\ Len(sessions[req.sid].participants) = 0
  /\ sockets[sessions[req.sid].adminId].status = "live"

\* C19: join-session, whether it succeeds or fails, leaves the store as it
\* was: the same sessions, each with the participants, the reference image and
\* the reference descriptor it had; a join creates no participant record.
C19_JoinLeavesSessions ==
  [][ req'.op = "join-session"
        => /\ DOMAIN sessions' = DOMAIN sessions
           /\ \A sid \in DOMAIN sessions :
                /\ sessions'[sid].participants = sessions[sid].participants
                /\ sessions'[sid].referenceImage = sessions[sid].referenceImage
                /\ sessions'[sid].referenceFaceDescriptor
                     = sessions[sid].referenceFaceDescriptor ]_vars

\* a join has succeeded on a session that has a reference and a participant
C19_Witness ==
  /\ req.op = "join-session"
  /\ Succeeded
  /\ sessions[req.sid].referenceImage # null
  /\ Len(sessions[req.sid].participants) >= 1

\* a join has failed on a full session
C19_WitnessFailed ==
  /\ req.op = "join-session"
  /\ ~Succeeded
  /\ req.sid \in DOMAIN sessions

\* C20: upload-participant-image on a session succeeds only for a connection
\* that has joined it: the caller is in the session's room (socket.join) and
\* the session is the one the connection tracks (socket.sessionId).
C20_UploadOnlyAfterJoin ==
  (IsUpload /\ Succeeded)
    => /\ req.sid \in sockets[req.c].rooms
       /\ sockets[req.c].sessionId = req.sid

\* the (session, role) pairs of connection c: owner of every stored session
\* whose adminId it is, participant of the stored session it has joined
\* (socket.sessionId with socket.isAdmin = false)
rolePairs(c) ==
  {<<sid, "Owner">> : sid \in {x \in DOMAIN sessions : sessions[x].adminId = c}}
  \cup {<<sid, "Participant">> :
          sid \in {x \in DOMAIN sessions :
                     sockets[c].sessionId = x /\ ~sockets[c].isAdmin}}

\* C21: every live connection has at most one (session, role) pair: it is
\* never the owner of one session and a joined participant of the same or of
\* another session, and never the owner of two stored sessions.
C21_OneSessionRolePair ==
  \A c \in LiveSockets : Cardinality(rolePairs(c)) <= 1

\* the records of the connections in keep, in their order
recordsOf(participants, keep) ==
  SelectSeq(participants, LAMBDA p : p.socketId \in keep)

\* C22: a stored participant record never changes: every step leaves the
\* participants of a session as a selection of the records it had, each one
\* as it was, and only upload-participant-image adds one record after them,
\* whose matched and matchDistance come from the reference stored at that
\* moment; upload-reference-image replaces the reference and leaves the
\* participants as they are.
C22_RecordsImmutable ==
  [][ \A sid \in DOMAIN sessions \cap DOMAIN sessions' :
        LET old == sessions[sid].participants
            new == sessions'[sid].participants
        IN /\ req'.op = "upload-reference-image" => new = old
           /\ \/ \E keep \in SUBSET Conns : new = recordsOf(old, keep)
              \/ /\ req'.op = "upload-participant-image"
                 /\ req'.sid = sid
                 /\ Len(new) = Len(old) + 1
                 /\ SubSeq(new, 1, Len(old)) = old
                 /\ new[Len(new)].matchDistance
                      = SumSq(sessions[sid].referenceFaceDescriptor.arr,
                              req'.in.faceDescriptor.arr, 1)
                 /\ new[Len(new)].matched
                      <=> new[Len(new)].matchDistance < thresholdSq ]_vars

\* the owner has replaced the reference of a session holding a record whose
\* stored distance is not the distance to the new reference
C22_Witness ==
  /\ req.op = "upload-reference-image"
  /\ Succeeded
  /\ sessions[req.sid].referenceFaceDescriptor.defined
  /\ \E i \in 1..Len(sessions[req.sid].participants) :
       LET p == sessions[req.sid].participants[i]
       IN /\ ~euclideanDistanceThrows(sessions[req.sid].referenceFaceDescriptor,
                                      p.faceDescriptor)
          /\ p.matchDistance
               # euclideanDistance(sessions[req.sid].referenceFaceDescriptor,
                                   p.faceDescriptor)

\* after that, another upload has been compared with the new reference
C22_WitnessLater ==
  /\ IsUpload
  /\ Succeeded
  /\ Len(sessions[req.sid].participants) >= 2
  /\ LET p == sessions[req.sid].participants[1]
     IN /\ ~euclideanDistanceThrows(sessions[req.sid].referenceFaceDescriptor,
                                    p.faceDescriptor)
        /\ p.matchDistance
             # euclideanDistance(sessions[req.sid].referenceFaceDescriptor,
                                 p.faceDescriptor)

\* the descriptors of the call, exchanged
swapped == [op |-> "euclideanDistance", desc1 |-> req.desc2, desc2 |-> req.desc1]

\* C23: euclideanDistance is symmetric: the call on (a, b) throws exactly when
\* the call on (b, a) throws, and otherwise returns the same (squared)
\* distance and hence the same matched decision.
C23_Symmetric ==
  (req.op = "euclideanDistance" /\ Len(out) = 1)
    => /\ (out[1].name = "throw")
            <=> euclideanDistanceThrows(swapped.desc1, swapped.desc2)
       /\ out[1].name = "return"
            => /\ out[1].distance = euclideanDistance(swapped.desc1, swapped.desc2)
               /\ out[1].isMatch
                    <=> isMatch(euclideanDistance(swapped.desc1, swapped.desc2))

\* the function has returned for two different vectors of two coordinates
C23_Witness ==
  /\ req.op = "euclideanDistance"
  /\ Len(out) = 1
  /\ out[1].name = "return"
  /\ Len(req.desc1.arr) = 2
  /\ req.desc1.arr[1] < req.desc2.arr[1]
  /\ req.desc1.arr[2] > req.desc2.arr[2]

\* C24: for every vector a, euclideanDistance(a, a) = 0 and the threshold
\* test accepts it: an embedding identical to the reference is matched.
C24_ZeroOnSelf ==
  (req.op = "euclideanDistance" /\ Len(out) = 1 /\ req.desc1 = req.desc2)
    => /\ out[1].name = "return"
       /\ out[1].distance = 0
       /\ out[1].isMatch

\* the function has returned for a vector of two coordinates and itself
C24_Witness ==
  /\ req.op = "euclideanDistance"
  /\ Len(out) = 1
  /\ req.desc1 = req.desc2
  /\ Len(req.desc1.arr) = 2
  /\ req.desc1.arr[1] > 0

\* the same in the handler: an upload whose descriptor is the stored reference
\* descriptor is stored and reported as matched, at distance 0
C24_IdenticalUploadMatched ==
  ( /\ IsUpload
    /\ Succeeded
    /\ req.in.faceDescriptor = sessions[req.sid].referenceFaceDescriptor )
  => LET p == sessions[req.sid].participants[Len(sessions[req.sid].participants)]
     IN /\ p.matched
        /\ p.matchDistance = 0
        /\ out[2].payload.matched
        /\ out[2].payload.distance = 0

\* an upload with the stored reference descriptor has succeeded
C24_WitnessUpload ==
  /\ IsUpload
  /\ Succeeded
  /\ req.in.faceDescriptor = sessions[req.sid].referenceFaceDescriptor

\* C25: an upload-participant-image whose descriptor has another length than
\* the reference descriptor fails gracefully: the caller gets exactly one
\* reply, with success = false, nothing else is sent, and the server keeps
\* running.
C25_MismatchFailsGracefully ==
  ( /\ IsUpload
    /\ req.sid \in DOMAIN sessions
    /\ sessions[req.sid].referenceImage # null
    /\ sessions[req.sid].referenceFaceDescriptor.defined
    /\ req.in.faceDescriptor.defined
    /\ Len(req.in.faceDescriptor.arr)
         # Len(sessions[req.sid].referenceFaceDescriptor.arr) )
  => /\ running
     /\ Len(out) = 1
     /\ out[1].name = "reply"
     /\ ~out[1].payload.success

\* the last handler has sent a reply with success = true, at any position
accepted ==
  \E i \in 1..Len(out) : out[i].name = "reply" /\ out[i].payload.success

\* C26: every handler dispatches its events before it returns, in a fixed
\* order, each describing the session as that operation left it, so the owner
\* receives them in the order the operations were applied: a successful
\* upload sends the reply, then the verification-result, then (on a match) the
\* gallery-updated with the count after this upload; a successful join sends
\* the reply, then participant-joined; a participant's disconnect sends
\* participant-left with the count after the removal.
C26_DispatchOrder ==
  /\ (IsUpload /\ accepted)
       => /\ Len(out) \in {2, 3}
          /\ out[1].name = "reply"
          /\ out[2].name = "verification-result"
          /\ out[2].to \subseteq {req.c}
          /\ Len(out) = 3
               => /\ out[3].name = "gallery-updated"
                  /\ out[3].to \subseteq {sessions[req.sid].adminId}
                  /\ out[3].payload.totalParticipants
                       = Len(sessions[req.sid].participants)
  /\ (req.op = "join-session" /\ accepted)
       => /\ Len(out) = 2
          /\ out[1].name = "reply"
          /\ out[2].name = "participant-joined"
          /\ out[2].to \subseteq {sessions[req.sid].adminId}
          /\ out[2].payload.participantCount = Len(sessions[req.sid].participants)
  /\ (req.op = "disconnect" /\ Len(out) > 0 /\ out[1].name = "participant-left")
       => /\ Len(out) = 1
          /\ req.sid \in DOMAIN sessions
               => /\ out[1].to \subseteq {sessions[req.sid].adminId}
                  /\ out[1].payload.participantCount
                       = Len(sessions[req.sid].participants)

\* a matched upload has sent its three messages, the last one to the owner,
\* in a session that already held a record
C26_Witness ==
  /\ IsUpload
  /\ Succeeded
  /\ Len(out) = 3
  /\ out[3].to = {sessions[req.sid].adminId}
  /\ out[3].payload.totalParticipants = 2

\* C27: after the reference, a matching upload by A and then a non-matching
\* upload by B, the owner's gallery shows one matched participant (A alone)
\* and two submissions: the upload of B sends the owner a gallery-updated with
\* matchedCount = 1 and totalParticipants = 2 that lists A only, and B's
\* verification-result carries no reference image.
C27_UnmatchedUploadCounted ==
  ( /\ IsUpload
    /\ Succeeded
    /\ Len(sessions[req.sid].participants) = 2
    /\ sessions[req.sid].participants[1].matched
    /\ ~sessions[req.sid].participants[2].matched )
  => /\ out[2].payload.referenceImage = null
     /\ \E i \in 1..Len(out) :
          /\ out[i].name = "gallery-updated"
          /\ out[i].payload.matchedCount = 1
          /\ out[i].payload.totalParticipants = 2
          /\ out[i].payload.participants
               = <<galleryEntry(sessions[req.sid].participants[1])>>

\* the request r meets a state in which its handler rejects it: session not
\* found, session full, not authorized, reference not ready
rejects(r) ==
  /\ r.op \in {"join-session", "upload-reference-image", "upload-participant-image"}
  /\ \/ r.sid \notin DOMAIN sessions
     \/ /\ r.op = "join-session"
        /\ Len(sessions[r.sid].participants) >= maxParticipants
     \/ /\ r.op = "upload-reference-image"
        /\ sessions[r.sid].adminId # r.c
     \/ /\ r.op = "upload-participant-image"
        /\ \/ sessions[r.sid].referenceImage = null
           \/ Len(sessions[r.sid].participants) >= maxParticipants

\* C28: every rejected request is answered by exactly one reply, with
\* success = false, to the caller; it leaves the session store and the
\* caller's tracked session and role as they were, emits no event, and the
\* server keeps running.
C28_RejectionOnlyReplies ==
  [][ rejects(req')
        => /\ Len(out') = 1
           /\ out'[1].name = "reply"
           /\ out'[1].to = {req'.c}
           /\ ~out'[1].payload.success
           /\ sessions' = sessions
           /\ sockets' = sockets
           /\ running' ]_vars

\* a join has been rejected because the session is full
C28_Witness ==
  /\ req.op = "join-session"
  /\ req.sid \in DOMAIN sessions
  /\ Len(out) = 1
  /\ ~out[1].payload.success

\* the other rejections: an unknown session, a caller who is not the owner,
\* a session without reference
C28_WitnessNotFound ==
  /\ req.op = "upload-participant-image"
  /\ Len(out) = 1
  /\ out[1].payload = [success |-> FALSE, error |-> "Session not found"]

C28_WitnessNotAuthorized ==
  /\ req.op = "upload-reference-image"
  /\ Len(out) = 1
  /\ ~out[1].payload.success
  /\ req.sid \in DOMAIN sessions

C28_WitnessNotReady ==
  /\ req.op = "upload-participant-image"
  /\ Len(out) = 1
  /\ out[1].payload = [success |-> FALSE,
                       error |-> "Session host has not uploaded reference image yet"]

\* session sid is stored and the connection of its owner has gone
orphan(sid) ==
  sid \in DOMAIN sessions /\ sockets[sessions[sid].adminId].status = "gone"

\* C29: once the owner's connection has disconnected, the reference image and
\* descriptor of its session never change again, whoever sends
\* upload-reference-image, while a participant upload against that reference
\* is still accepted and stored.
C29_ReferenceFrozenAfterOwnerLeft ==
  [][ \A sid \in DOMAIN sessions :
        orphan(sid)
          => /\ ( /\ sid \in DOMAIN sessions'
                  /\ sessions'[sid].adminId = sessions[sid].adminId )
                => /\ sessions'[sid].referenceImage = sessions[sid].referenceImage
                   /\ sessions'[sid].referenceFaceDescriptor
                        = sessions[sid].referenceFaceDescriptor
             /\ (req'.op = "upload-reference-image" /\ req'.sid = sid)
                  => /\ ~out'[1].payload.success
                     /\ sessions' = sessions
             /\ ( /\ req'.op = "upload-participant-image"
                  /\ req'.sid = sid
                  /\ sessions[sid].referenceImage # null
                  /\ Len(sessions[sid].participants) < maxParticipants
                  /\ ~euclideanDistanceThrows(sessions[sid].referenceFaceDescriptor,
                                              req'.in.faceDescriptor) )
                  => /\ out'[1].payload.success
                     /\ Len(sessions'[sid].participants)
                          = Len(sessions[sid].participants) + 1 ]_vars

\* an upload-reference-image has been sent to a session whose owner has gone
C29_Witness ==
  /\ req.op = "upload-reference-image"
  /\ orphan(req.sid)
  /\ sessions[req.sid].referenceImage # null

\* a participant upload has been accepted by a session whose owner has gone
C29_WitnessUpload ==
  /\ IsUpload
  /\ Succeeded
  /\ orphan(req.sid)

\* the stored duration of session sid is no duration: not a number, or a
\* number that is not positive
malformedDuration(sid) ==
  \/ sessions[sid].durationMinutes.t # "number"
  \/ sessions[sid].durationMinutes.v <= 0

\* C30: the sweep treats a session whose duration is absent, zero, negative or
\* not a number as expired: none survives the sweeps indefinitely, so right
\* after a sweep the store holds no such session that is older than the
\* longest time the sweep ever waits, the 30 minutes of the default.
C30_MalformedSwept ==
  req.op = "sweep" =>
    \A sid \in DOMAIN sessions :
      malformedDuration(sid) => ageOf(sid) <= defaultDurationMinutes * 60 * 1000

\* the stronger reading: such a session is deleted by the first sweep
C30_MalformedSweptAtOnce ==
  req.op = "sweep" => \A sid \in DOMAIN sessions : ~malformedDuration(sid)

\* C31: no join-session, upload-reference-image or upload-participant-image
\* succeeds on a session whose age exceeds its configured duration, the time
\* between the expiry and the next sweep included.
C31_NoSuccessAfterExpiry ==
  ( /\ req.op \in {"join-session", "upload-reference-image",
                   "upload-participant-image"}
    /\ Succeeded
    /\ req.sid \in DOMAIN sessions
    /\ sessions[req.sid].durationMinutes.t = "number" )
  => ageOf(req.sid) <= configuredMs(req.sid)

\* the last handler has sent a comparison-result
compared == Len(out) = 3 /\ out[3].name = "comparison-result"

\* C32 (two-party server): a comparison-result carries the two images only
\* when matched is true; when the faces do not match it carries no image and
\* the photos are destroyed at once: no session whose comparison did not
\* match still stores an image.
C32_UnmatchedPhotosDestroyed ==
  /\ compared
       => ("user1" \in DOMAIN out[3].payload <=> out[3].payload.matched)
  /\ \A sid \in DOMAIN sessions :
       sessions[sid].matched = "false"
         => \A i \in 1..Len(sessions[sid].users) :
              sessions[sid].users[i].image = null

\* C33 (two-party server): a session is single-shot: an upload-image to a
\* session that has already been compared (matched is set) triggers no second
\* comparison, sends no second comparison-result and starts no second timer.
C33_SingleComparison ==
  [][ ( /\ req'.op = "upload-image"
        /\ req'.sid \in DOMAIN sessions
        /\ sessions[req'.sid].matched # "null" )
      => /\ \A i \in 1..Len(out') : out'[i].name # "comparison-result"
         /\ timers' = timers
         /\ req'.sid \in DOMAIN sessions'
              => sessions'[req'.sid].matched = sessions[req'.sid].matched ]_vars

\* the reply "Session not found" to connection c, and nothing else
notFound(c) ==
  <<[name |-> "reply", to |-> {c},
     payload |-> [success |-> FALSE, error |-> "Session not found"]]>>

\* C34: removal is final: a join-session, upload-reference-image or
\* upload-participant-image naming an id that is not in the store (the
\* session was removed by the sweep or by the disconnect clean-up) is
\* answered with "Session not found" and nothing else is sent; it does not
\* bring the session back and changes neither the store nor the sockets.
C34_RemovedStaysRemoved ==
  [][ ( /\ req'.op \in {"join-session", "upload-reference-image",
                        "upload-participant-image"}
        /\ req'.sid \notin DOMAIN sessions )
      => /\ out' = notFound(req'.c)
         /\ sessions' = sessions
         /\ sockets' = sockets ]_vars

\* a request has named the session of a connected owner that the sweep
\* removed
C34_Witness ==
  /\ req.op \in {"join-session", "upload-reference-image",
                 "upload-participant-image"}
  /\ req.sid \notin DOMAIN sessions
  /\ \E c \in Conns :
       /\ sockets[c].status = "live"
       /\ sockets[c].isAdmin
       /\ sockets[c].sessionId = req.sid
  /\ now > 0

\* a request has named the session that the clean-up of its owner's
\* disconnect removed
C34_WitnessDisconnect ==
  /\ req.op \in {"join-session", "upload-participant-image"}
  /\ req.sid \notin DOMAIN sessions
  /\ now = 0
  /\ \E c \in Conns :
       /\ sockets[c].status = "gone"
       /\ sockets[c].isAdmin
       /\ sockets[c].sessionId = req.sid

\* C35: the image a participant uploads is delivered only to that participant,
\* in the verification-result of its upload, and, only if the upload matched,
\* to the owner of the session, in gallery-updated: a verification-result
\* goes to the uploader alone, a gallery-updated goes to the owner alone and
\* lists matched records of this session only, and no other message carries
\* an image.
C35_ParticipantImageDelivery ==
  \A i \in 1..Len(out) :
    /\ out[i].name = "verification-result"
         => /\ IsUpload
            /\ out[i].to \subseteq {req.c}
            /\ out[i].payload.participantImage = req.in.image
    /\ out[i].name = "gallery-updated"
         => /\ IsUpload
            /\ out[i].to \subseteq {sessions[req.sid].adminId}
            /\ sessions[req.sid].participants[Len(sessions[req.sid].participants)].matched
            /\ \A k \in 1..Len(out[i].payload.participants) :
                 \E j \in 1..Len(sessions[req.sid].participants) :
                   /\ sessions[req.sid].participants[j].matched
                   /\ out[i].payload.participants[k]
                        = galleryEntry(sessions[req.sid].participants[j])
    /\ out[i].name \notin {"verification-result", "gallery-updated"}
         => carried(out[i]) = {}

\* a matched upload has been reported to the owner while a third connection
\* is in the room of the session
C35_Witness ==
  /\ IsUpload
  /\ Succeeded
  /\ Len(out) = 3
  /\ out[3].to = {sessions[req.sid].adminId}
  /\ \E x \in LiveSockets \ {req.c, sessions[req.sid].adminId} :
       req.sid \in sockets[x].rooms

\* the last handler has changed the participants of a stored session that
\* holds a matched record and whose owner is connected: an accepted upload, or
\* the disconnect of a participant
changedParticipants ==
  /\ req.op \in {"upload-participant-image", "disconnect"}
  /\ req.sid \in DOMAIN sessions
  /\ sessions[req.sid].adminId \in LiveSockets
  /\ Len(matchedOf(sessions[req.sid].participants)) >= 1
  /\ \/ IsUpload /\ Succeeded
     \/ /\ req.op = "disconnect"
        /\ Len(out) = 1
        /\ out[1].name = "participant-left"

\* C36: the most recent gallery-updated the owner has received agrees with
\* the store: whenever an upload (matched or not) or a participant's
\* disconnect has changed the participants of a session with a connected
\* owner, the owner is sent a gallery-updated with the stored matched
\* participants and the stored counts.
C36_GalleryAgreesWithStore ==
  changedParticipants
    => \E i \in 1..Len(out) :
         /\ out[i].name = "gallery-updated"
         /\ out[i].to = {sessions[req.sid].adminId}
         /\ out[i].payload.participants = galleryOf(sessions[req.sid].participants)
         /\ out[i].payload.totalParticipants = Len(sessions[req.sid].participants)
         /\ out[i].payload.matchedCount
              = Len(matchedOf(sessions[req.sid].participants))

\* C37 (two-party server): a matched comparison-result, which carries both
\* images, is delivered only to the two connections whose uploads were
\* compared; a connection that joined without uploading never receives it.
C37_ResultOnlyToCompared ==
  (compared /\ out[3].payload.matched)
    => out[3].to \subseteq {sessions[req.sid].users[1].socketId,
                            sessions[req.sid].users[2].socketId}

\* every users list has at most 2 entries and at most one per connection
usersBounded ==
  \A sid \in DOMAIN sessions :
    /\ Len(sessions[sid].users) <= maxUsers
    /\ \A i, j \in 1..Len(sessions[sid].users) :
         sessions[sid].users[i].socketId = sessions[sid].users[j].socketId
           => i = j

\* the positions of the users list that belong to connection c
entriesOf(users, c) == {i \in 1..Len(users) : users[i].socketId = c}

\* C38 (two-party server): a users list never has more than 2 entries nor two
\* entries of one connection; an upload-image from a connection that has an
\* entry replaces that entry where it stands and touches no other entry, also
\* when the list is full; an upload-image from a connection without an entry
\* to a list of 2 is answered "Session is full" and changes no session.
C38_UsersBoundedAndOverwritten ==
  /\ []usersBounded
  /\ [][ ( /\ req'.op = "upload-image"
           /\ req'.sid \in DOMAIN sessions )
         => LET users == sessions[req'.sid].users
                mine == entriesOf(users, req'.c)
            IN /\ mine # {}
                    => /\ req'.sid \in DOMAIN sessions'
                       /\ Len(sessions'[req'.sid].users) = Len(users)
                       /\ \A i \in 1..Len(users) :
                            sessions'[req'.sid].users[i] =
                              IF i \in mine THEN newUser(req'.c, req'.in)
                              ELSE users[i]
                       /\ \E i \in 1..Len(out') :
                            out'[i] = Reply(req'.c, [success |-> TRUE])
               /\ (mine = {} /\ Len(users) = maxUsers)
                    => /\ out' = Fail(req'.c, "Session is full")
                       /\ sessions' = sessions ]_vars

\* connection c, first of a full list, has overwritten its entry: the entry at
\* position 1 carries the descriptor c has just sent with its second input
C38_Witness ==
  /\ req.op = "upload-image"
  /\ req.c = "c"
  /\ req.in.faceDescriptor = Arr(<<0>>)
  /\ accepted
  /\ req.sid \in DOMAIN sessions
  /\ Len(sessions[req.sid].users) = maxUsers
  /\ sessions[req.sid].users[1] = newUser("c", req.in)

\* a third connection was refused by a list of two entries
C38_WitnessFull ==
  /\ req.op = "upload-image"
  /\ out = Fail(req.c, "Session is full")
  /\ req.sid \in DOMAIN sessions
  /\ Len(sessions[req.sid].users) = maxUsers
  /\ entriesOf(sessions[req.sid].users, req.c) = {}

====
